---- MODULE Spec2Model ----
(***************************************************************************)
(* GenKgMID v2 batch engine: the Batch record, its BatchItems, the         *)
(* "batch/created" event queue, the processWikidata driver loop with its   *)
(* pLimit executor, and the upload / cancel / retry routes that share the  *)
(* store with it.  One Batch is modelled; every awaited store round trip   *)
(* of a handler is one step, so that handlers interleave as the server     *)
(* lets them.                                                              *)
(***************************************************************************)
EXTENDS Integers, Sequences, FiniteSets, TLC

\* ------------------------------------------------------------------ bounds
MaxItems == 1          \* rows of the batch when clients call the routes freely
MaxKeys == 1           \* API keys of the batch when clients call the routes freely
UIItems == 3           \* rows of the batch when the client is the v2 page
UIKeys == 2
RunKeys == 3
InitRequests == 3
RandomDenom == 1024
DbCalls == 4            \* API keys of the batch when the client is the v2 page
MaxRuns == 2           \* "batch/created" events sent over a behaviour
BATCH_SIZE == 2        \* items per process-chunk step (100 in the source, scaled)
StubCalls == 5         \* calls a lookup stub has an answer for
PoolTasks == 4         \* tasks submitted to one executor
PoolLimit == 3         \* ceiling of one executor
IngestRows == 2        \* row ids sent to upload/chunk
IngestCalls == 2       \* upload/chunk requests in flight together
IngestOps == 2         \* items of one upload/chunk request

\* -------------------------------------------------------- program constants
MAX_RETRIES == 3
CHUNK_CEILING == 2000
GRANULAR_LIMIT == 10000
PERCENT == 100
BASE_DELAY == 1000
JITTER_RANGE == 1000

Max(a, b) == IF a >= b THEN a ELSE b

Rows == 1..Max(MaxItems, UIItems)
Runs == 1..MaxRuns

BATCH_STATUSES == {"PENDING", "UPLOADING", "PROCESSING", "COMPLETED", "FAILED", "STOPPED"}
BATCH_ITEM_STATUSES == {"PENDING", "COMPLETED", "FAILED"}
Terminal == {"COMPLETED", "FAILED"}

\* ------------------------------------------------------------- arithmetic
\* Math.round((a / b) * 100) for a >= 0, b > 0
RoundPercent(a, b) == (2 * PERCENT * a + b) \div (2 * b)

\* Math.ceil(totalItems / 100), floored at 1
UpdateInterval(totalItems) ==
    LET c == (totalItems + PERCENT - 1) \div PERCENT
    IN  IF c < 1 THEN 1 ELSE c

\* x || y on numbers
OrElse(x, y) == IF x = 0 THEN y ELSE x

\* ------------------------------------------------- lookup and retry loop
\* What one call of searchGoogleKGAction gives: a match, null, or the thrown
\* Error("429 Rate Limit"); fetchKGResults swallows every other failure and
\* answers [] for it, which the action turns into null.
RateLimitMsg == "429 Rate Limit"
QuotaMsg == "Quota exceeded"
OtherMsg == "Network Error"
Responses == {"match", "none", RateLimitMsg}

\* the classification without the quota marker
isRateLimit429Only(msg) == msg = RateLimitMsg

\* the classification that takes every error for a rate limit
isRateLimitAlways(msg) == TRUE

\* err.message.includes("429") || err.message.toLowerCase().includes("quota")
isRateLimit(msg) == msg \in {RateLimitMsg, QuotaMsg}

\* The responses the external API gives to the successive calls made for one
\* item: j rate-limit errors, then an answer.
Scripts ==
    { [k \in 1..(j + 1) |-> IF k <= j THEN RateLimitMsg ELSE last] :
        j \in 0..(MAX_RETRIES + 1), last \in Responses \ {RateLimitMsg} }

\* What a lookup stub can give to one call: an answer, an error that carries
\* a rate-limit marker, or an error that carries none.
StubResponses == Responses \cup {QuotaMsg, OtherMsg}

\* A lookup stub: its response to each of the first StubCalls calls.
StubScripts == [1..StubCalls -> StubResponses]

\* The scripts a batch with nKeys keys can meet: without a key the task
\* passes apiKey undefined and fetchKGResults answers [] before any request.
LookupScripts(nKeys) == IF nKeys = 0 THEN {<<"none">>} ELSE Scripts

\* the give-up test, one attempt late
GivesUpLate(attempt) == attempt > MAX_RETRIES + 1

\* if (attempt > MAX_RETRIES) throw err
GivesUp(attempt) == attempt > MAX_RETRIES

\* while (attempt <= MAX_RETRIES) { try { call; break } catch { ... } }
\* Gives the outcome, the number of calls made and the backoff delays taken.
RECURSIVE RetryLoop(_, _, _, _)
RetryLoop(script, attempt, calls, delays) ==
    IF attempt > MAX_RETRIES \/ calls >= Len(script)
    THEN [ok |-> TRUE, kgResult |-> "none", error |-> "", calls |-> calls, delays |-> delays]
    ELSE LET r == script[calls + 1] IN
         IF r \in {"match", "none"}
         THEN [ok |-> TRUE, kgResult |-> r, error |-> "", calls |-> calls + 1, delays |-> delays]
         ELSE IF isRateLimit(r)
              THEN IF GivesUp(attempt + 1)
                   THEN [ok |-> FALSE, kgResult |-> "none", error |-> r,
                         calls |-> calls + 1, delays |-> delays]
                   ELSE RetryLoop(script, attempt + 1, calls + 1, delays + 1)
              ELSE [ok |-> FALSE, kgResult |-> "none", error |-> r,
                    calls |-> calls + 1, delays |-> delays]

\* a task that takes the lookup path whatever the payload holds
TaskBodyAlwaysLooksUp(kgId, script) ==
    [jitter |-> 1] @@ RetryLoop(script, 0, 0, 0)

\* The body of the function given to limit(), before its item write: with a
\* kgId in the payload it returns at once; otherwise it waits the jitter and
\* runs the retry loop. jitter counts the jitter waits taken.
TaskBody(kgId, script) ==
    IF kgId
    THEN [ok |-> TRUE, kgResult |-> "none", error |-> "", calls |-> 0, delays |-> 0,
          jitter |-> 0]
    ELSE [jitter |-> 1] @@ RetryLoop(script, 0, 0, 0)

\* ------------------------------------------------------------------ state
VARIABLES
    batch,           \* the Batch document, or NoBatch before upload/init
    items,           \* BatchItem documents by data._rowId, NoItem if absent
    events,          \* "batch/created" events sent and not yet delivered
    drv,             \* the processWikidata runs
    progressWrites,  \* fire-and-forget progress updates not yet applied
    cancelReq,       \* a cancel request between its findOne and its save
    retryReq,        \* a retry request between its findOne and its save
    hist,            \* bookkeeping for the properties, read by no action guard
    lookup,          \* one item's task run against a lookup stub
    pool,            \* one pLimit executor with the tasks submitted to it
    coll,            \* the BatchItem collection as documents, with its upserts
    ids,             \* the Counter document and the upload/init requests using it
    db               \* the cached connection of dbConnect and the calls made to it

\* the parts of the engine exercised on their own
units == <<lookup, pool, coll, ids, db>>

vars == <<batch, items, events, drv, progressWrites, cancelReq, retryReq, hist, units>>

NoBatch == [exists |-> FALSE]
NoItem == [exists |-> FALSE]
NoReq == "none"

IdleRun ==
    [pc |-> "idle", chunkIndex |-> 0, items |-> <<>>,
     totalItems |-> 0, baseProcessedCount |-> 0, itemsCompletedInChunk |-> 0,
     activeCount |-> 0, queue |-> <<>>, task |-> <<>>, key |-> <<>>,
     totalFinished |-> 0, total |-> 0]

NoHist ==
    [atStart |-> [d \in Runs |-> [r \in Rows |-> NoItem]], written |-> [d \in Runs |-> {}],
     chunks |-> [d \in Runs |-> <<>>], cancelled |-> FALSE, stopMark |-> <<>>,
     failed |-> {}, refused |-> FALSE, stopChunk |-> {}, afterStop |-> {},
     keys |-> [d \in Runs |-> <<>>], used |-> {}]

NoLookup == [pc |-> "off"]
NoPool == [pc |-> "off"]
NoColl == [pc |-> "off"]
NoIds == [pc |-> "off"]
NoDb == [pc |-> "off"]

Init ==
    /\ batch = NoBatch
    /\ items = [r \in Rows |-> NoItem]
    /\ events = 0
    /\ drv = [d \in Runs |-> IdleRun]
    /\ progressWrites = {}
    /\ cancelReq = NoReq
    /\ retryReq = NoReq
    /\ hist = NoHist
    /\ lookup = NoLookup
    /\ pool = NoPool
    /\ coll = NoColl
    /\ ids = NoIds
    /\ db = NoDb

\* --------------------------------------------------------- store queries
ItemRows == {r \in Rows : items[r].exists}
PendingRows == {r \in ItemRows : items[r].status = "PENDING"}
TerminalRows == {r \in ItemRows : items[r].status \in Terminal}

\* events sent so far: delivered ones plus those still queued
Sent == Cardinality({d \in Runs : drv[d].pc # "idle"}) + events

\* inngest.send({ name: "batch/created", ... }), capped for the model
CanSend == Sent < MaxRuns

\* ------------------------------------------------------- upload routes
\* POST /api/v2/upload/init: Batch.create({... status: "UPLOADING" ...})
UploadInit(n, k) ==
    /\ ~batch.exists
    /\ batch' = [exists |-> TRUE, status |-> "UPLOADING", totalItems |-> n,
                 processedCount |-> 0, progress |-> 0, nKeys |-> k, error |-> ""]
    /\ UNCHANGED <<items, events, drv, progressWrites, cancelReq, retryReq, hist, units>>

\* One updateOne of the bulk upsert: { $setOnInsert: item }, upsert: true
Upsert(its, r, prefilled) ==
    IF its[r].exists THEN its[r]
    ELSE [exists |-> TRUE, status |-> "PENDING", result |-> "unset", error |-> "",
          kgId |-> (r \in prefilled)]

\* POST /api/v2/upload/chunk: bulkWrite of upserts keyed by (batchId, _rowId);
\* prefilled are the rows whose payload already carries a kgId.
UploadChunk(rows, prefilled) ==
    /\ batch.exists
    /\ rows # {}
    /\ rows \subseteq 1..batch.totalItems
    /\ prefilled \subseteq rows
    /\ items' = [r \in Rows |-> IF r \in rows THEN Upsert(items, r, prefilled) ELSE items[r]]
    /\ UNCHANGED <<batch, events, drv, progressWrites, cancelReq, retryReq, hist, units>>

\* POST /api/v2/upload/complete: findByIdAndUpdate(status PENDING), then send
UploadComplete ==
    /\ batch.exists
    /\ CanSend
    /\ batch' = [batch EXCEPT !.status = "PENDING"]
    /\ events' = events + 1
    /\ UNCHANGED <<items, drv, progressWrites, cancelReq, retryReq, hist, units>>

\* ---------------------------------------------------------- cancel route
\* findOne, then the 400 for a finished batch; the document read is kept
CancelRead ==
    /\ batch.exists
    /\ cancelReq = NoReq
    /\ batch.status \notin {"COMPLETED", "FAILED"}
    /\ cancelReq' = batch.status
    /\ UNCHANGED <<batch, items, events, drv, progressWrites, retryReq, hist, units>>

\* the status field of a document after doc.status = v; doc.save(): save
\* writes only the paths whose value differs from the one that was read
SaveStatus(b, readStatus, v) ==
    IF readStatus = v THEN b ELSE [b EXCEPT !.status = v]

\* batch.status = "STOPPED"; await batch.save()
CancelSave ==
    /\ cancelReq # NoReq
    /\ batch' = SaveStatus(batch, cancelReq, "STOPPED")
    /\ cancelReq' = NoReq
    /\ hist' = [hist EXCEPT !.cancelled = TRUE,
                            !.stopMark = IF /\ hist.stopMark = <<>>
                                            /\ cancelReq # "STOPPED"
                                            /\ drv[1].pc = "check"
                                            /\ drv[1].chunkIndex >= 1
                                         THEN <<drv[1].chunkIndex, drv[1].totalFinished>>
                                         ELSE hist.stopMark,
                            !.stopChunk = IF hist.cancelled THEN hist.stopChunk
                                          ELSE {drv[1].items[k] : k \in 1..Len(drv[1].items)}]
    /\ UNCHANGED <<items, events, drv, progressWrites, retryReq, units>>

\* ----------------------------------------------------------- retry route
\* the key test that lets every batch pass
HasKeysAlways(b) == TRUE

\* !(!batch.validKeys || batch.validKeys.length === 0)
HasKeys(b) == b.nKeys > 0

\* findOne, then the 400 "Missing API Configuration (Keys)": the handler
\* returns before it assigns, saves or sends anything
RetryRefuse ==
    /\ batch.exists
    /\ retryReq = NoReq
    /\ batch.status # "COMPLETED"
    /\ ~HasKeys(batch)
    /\ hist' = [hist EXCEPT !.refused = TRUE]
    /\ UNCHANGED <<batch, items, events, drv, progressWrites, cancelReq, retryReq, units>>

\* findOne, the 400 for COMPLETED, the 400 for a batch without keys
RetryRead ==
    /\ batch.exists
    /\ retryReq = NoReq
    /\ batch.status # "COMPLETED"
    /\ HasKeys(batch)
    /\ CanSend
    /\ retryReq' = batch.status
    /\ UNCHANGED <<batch, items, events, drv, progressWrites, cancelReq, hist, units>>

\* batch.status = "PENDING"; batch.error = undefined; save(); inngest.send()
RetrySave ==
    /\ retryReq # NoReq
    /\ batch' = [SaveStatus(batch, retryReq, "PENDING") EXCEPT !.error = ""]
    /\ events' = events + 1
    /\ retryReq' = NoReq
    /\ UNCHANGED <<items, drv, progressWrites, cancelReq, hist, units>>

\* ------------------------------------------------------------ pLimit
\* a run() that starts the task function without counting it
runUncounted(ex, idx) == [ex EXCEPT !.task[idx] = "running"]

\* run(): activeCount++ and the task function starts
run(ex, idx) ==
    [ex EXCEPT !.activeCount = ex.activeCount + 1, !.task[idx] = "running"]

\* the admission test of enqueue(), off by one
HasSlotInclusive(activeCount, limit) == activeCount <= limit

\* the admission test of enqueue()
HasSlot(activeCount, limit) == activeCount < limit

\* enqueue(): run at once while a slot is free, else push on the queue
enqueue(ex, idx, limit) ==
    IF HasSlot(ex.activeCount, limit)
    THEN run(ex, idx)
    ELSE [ex EXCEPT !.queue = Append(ex.queue, idx)]

\* next() that takes the task queued last
nextFromTail(ex) ==
    LET freed == [ex EXCEPT !.activeCount = ex.activeCount - 1]
        n == Len(freed.queue)
    IN  IF n > 0
        THEN run([freed EXCEPT !.queue = SubSeq(freed.queue, 1, n - 1)], freed.queue[n])
        ELSE freed

\* next(): activeCount--, then the head of the queue is shifted and run
next(ex) ==
    LET freed == [ex EXCEPT !.activeCount = ex.activeCount - 1] IN
    IF Len(freed.queue) > 0
    THEN run([freed EXCEPT !.queue = Tail(freed.queue)], Head(freed.queue))
    ELSE freed

\* items.map((dbItem, idx) => limit(...)): the tasks are submitted in order
RECURSIVE SubmitAll(_, _, _, _)
SubmitAll(ex, idx, n, limit) ==
    IF idx > n THEN ex ELSE SubmitAll(enqueue(ex, idx, limit), idx + 1, n, limit)

\* tasks of run d that have started and not settled
InFlight(d) == {idx \in 1..Len(drv[d].task) : drv[d].task[idx] = "running"}

\* ------------------------------------------------- processWikidata steps
\* the next run: Inngest starts one function run per delivered event
NextRun == CHOOSE d \in Runs : drv[d].pc = "idle" /\ \A e \in Runs : e < d => drv[e].pc # "idle"

\* event delivered; step "init-processing": status PROCESSING, unconditionally
InitProcessing(d) ==
    /\ events > 0
    /\ \E e \in Runs : drv[e].pc = "idle"
    /\ d = NextRun
    /\ events' = events - 1
    /\ batch' = [batch EXCEPT !.status = "PROCESSING"]
    /\ drv' = [drv EXCEPT ![d].pc = "check"]
    /\ hist' = [hist EXCEPT !.atStart[d] = items]
    /\ UNCHANGED <<items, progressWrites, cancelReq, retryReq, units>>

\* a loop that never looks at the status
ObservesStopNever(status) == FALSE

\* if (batchStatus === "STOPPED") break
ObservesStop(status) == status = "STOPPED"

\* step "check-status-<chunkIndex>": break when STOPPED
CheckStatus(d) ==
    /\ drv[d].pc = "check"
    /\ drv' = [drv EXCEPT ![d].pc = IF ObservesStop(batch.status) THEN "mark" ELSE "chunk"]
    /\ UNCHANGED <<batch, items, events, progressWrites, cancelReq, retryReq, hist, units>>

\* the first n elements of the set S of rows, in row order, as a sequence
RECURSIVE FirstRows(_, _)
FirstRows(S, n) ==
    IF S = {} \/ n = 0 THEN <<>>
    ELSE LET m == CHOOSE r \in S : \A q \in S : r <= q
         IN  <<m>> \o FirstRows(S \ {m}, n - 1)

\* the chunk query without its status filter
FindAnyStatus == FirstRows(ItemRows, BATCH_SIZE)

\* BatchItem.find({ batchId, status: "PENDING" }).limit(BATCH_SIZE)
FindPending == FirstRows(PendingRows, BATCH_SIZE)

\* the loop bookkeeping after a process-chunk step with the given result
AfterChunk(st, resultHasMore) ==
    LET chunkIndex == st.chunkIndex + 1
        hasMore == resultHasMore /\ ~(chunkIndex > CHUNK_CEILING)
    IN  [IdleRun EXCEPT !.chunkIndex = chunkIndex,
                         !.totalFinished = st.totalFinished,
                         !.pc = IF hasMore THEN "check" ELSE "mark"]

\* step "process-chunk-<chunkIndex>", up to the fetch of the pending items
FetchChunk(d) ==
    /\ drv[d].pc = "chunk"
    /\ LET found == FindPending IN
       IF Len(found) = 0
       THEN /\ drv' = [drv EXCEPT ![d] = AfterChunk(drv[d], FALSE)]
            /\ hist' = hist
       ELSE /\ drv' = [drv EXCEPT ![d].items = found, ![d].pc = "batchDoc"]
            /\ hist' = [hist EXCEPT !.chunks[d] = Append(hist.chunks[d], Len(found))]
    /\ UNCHANGED <<batch, items, events, progressWrites, cancelReq, retryReq, units>>

\* Math.max(1, validKeys.length * 1)
Concurrency(nKeys) == Max(1, nKeys)

\* a rotation that restarts with every chunk
KeyIndexLocal(chunkIndex, idx, nKeys) ==
    IF nKeys = 0 THEN -1 ELSE idx % nKeys

\* validKeys[(chunkIndex * BATCH_SIZE + idx) % validKeys.length] as the
\* position of the key in validKeys, idx counted from 0; -1 stands for the
\* undefined that an empty validKeys gives
KeyIndex(chunkIndex, idx, nKeys) ==
    IF nKeys = 0 THEN -1 ELSE (chunkIndex * BATCH_SIZE + idx) % nKeys

\* Batch.findById(...).select("totalItems processedCount"), then the tasks
\* are created, each with its key, and submitted to a fresh pLimit(concurrency)
ReadBatchDoc(d) ==
    /\ drv[d].pc = "batchDoc"
    /\ LET n == Len(drv[d].items)
           fresh == [drv[d] EXCEPT
                        !.totalItems = OrElse(batch.totalItems, n),
                        !.baseProcessedCount =
                            OrElse(batch.processedCount, drv[d].chunkIndex * BATCH_SIZE),
                        !.itemsCompletedInChunk = 0,
                        !.activeCount = 0,
                        !.queue = <<>>,
                        !.task = [idx \in 1..n |-> "queued"],
                        !.key = [idx \in 1..n |->
                                    KeyIndex(drv[d].chunkIndex, idx - 1, batch.nKeys)],
                        !.pc = "exec"]
       IN  /\ drv' = [drv EXCEPT ![d] = SubmitAll(fresh, 1, n, Concurrency(batch.nKeys))]
           /\ hist' = [hist EXCEPT !.keys[d] = hist.keys[d] \o
                          [idx \in 1..n |-> [row |-> drv[d].items[idx],
                                             chunkIndex |-> drv[d].chunkIndex,
                                             idx |-> idx - 1,
                                             key |-> fresh.key[idx]]]]
    /\ UNCHANGED <<batch, items, events, progressWrites, cancelReq, retryReq, units>>

\* totalItems <= 10000
useGranularUpdates(totalItems) == totalItems <= GRANULAR_LIMIT

\* the item writes without the one of the outer catch
ItemUpdateNoCatch(item, out) ==
    IF item.kgId THEN [item EXCEPT !.status = "COMPLETED"]
    ELSE IF out.ok
         THEN [item EXCEPT !.status = "COMPLETED",
                           !.result = IF out.kgResult = "match" THEN "match" ELSE "empty"]
         ELSE item

\* what the task writes to its item: the three findByIdAndUpdate calls
ItemUpdate(item, out) ==
    IF item.kgId THEN [item EXCEPT !.status = "COMPLETED"]
    ELSE IF out.ok
         THEN [item EXCEPT !.status = "COMPLETED",
                           !.result = IF out.kgResult = "match" THEN "match" ELSE "empty"]
         ELSE [item EXCEPT !.status = "FAILED", !.error = out.error]

\* One task of the chunk from its start to its return: the pre-filled
\* short cut or the retry loop, the item write, the count of completed
\* items with the best-effort progress write, then pLimit's next().
TaskSettle(d, idx, script) ==
    /\ drv[d].pc = "exec"
    /\ idx \in InFlight(d)
    /\ script \in LookupScripts(batch.nKeys)
    /\ LET r == drv[d].items[idx]
           out == TaskBody(items[r].kgId, script)
           granular == useGranularUpdates(drv[d].totalItems)
           done == IF granular THEN drv[d].itemsCompletedInChunk + 1
                   ELSE drv[d].itemsCompletedInChunk
           currentTotal == drv[d].baseProcessedCount + done
           settled == [drv[d] EXCEPT !.itemsCompletedInChunk = done,
                                     !.task[idx] = "settled"]
       IN  /\ items' = [items EXCEPT ![r] = ItemUpdate(items[r], out)]
           /\ drv' = [drv EXCEPT ![d] = next(settled)]
           /\ progressWrites' =
                IF /\ ~items[r].kgId
                   /\ out.ok
                   /\ granular
                   /\ done % UpdateInterval(drv[d].totalItems) = 0
                THEN progressWrites \cup
                        {[by |-> d, chunkIndex |-> drv[d].chunkIndex,
                          processedCount |-> currentTotal,
                          progress |-> RoundPercent(currentTotal, drv[d].totalItems)]}
                ELSE progressWrites
           /\ hist' = [hist EXCEPT
                          !.written[d] = hist.written[d] \cup {r},
                          !.failed = IF ~items[r].kgId /\ ~out.ok
                                     THEN hist.failed \cup {[row |-> r, error |-> out.error]}
                                     ELSE hist.failed,
                          !.afterStop = IF hist.cancelled
                                        THEN hist.afterStop \cup {r}
                                        ELSE hist.afterStop,
                          !.used = IF out.calls > 0
                                   THEN hist.used \cup
                                          {[by |-> d, row |-> r, key |-> drv[d].key[idx]]}
                                   ELSE hist.used]
    /\ UNCHANGED <<batch, events, cancelReq, retryReq, units>>

\* a fire-and-forget Batch.findByIdAndUpdate({ processedCount, progress })
\* reaches the store
ApplyProgressWrite(w) ==
    /\ w \in progressWrites
    /\ batch' = [batch EXCEPT !.processedCount = w.processedCount,
                              !.progress = w.progress]
    /\ progressWrites' = progressWrites \ {w}
    /\ UNCHANGED <<items, events, drv, cancelReq, retryReq, hist, units>>

\* a join that resolves with the first settled task
JoinDoneFirst(task) == \E idx \in 1..Len(task) : task[idx] = "settled"

\* await Promise.all(promises), all tasks resolving
JoinDone(task) == \A idx \in 1..Len(task) : task[idx] = "settled"

\* Promise.all(promises) has resolved; countDocuments of the terminal items
CountFinished(d) ==
    /\ drv[d].pc = "exec"
    /\ JoinDone(drv[d].task)
    /\ drv' = [drv EXCEPT ![d].totalFinished = Cardinality(TerminalRows),
                          ![d].pc = "countTotal"]
    /\ UNCHANGED <<batch, items, events, progressWrites, cancelReq, retryReq, hist, units>>

\* countDocuments({ batchId })
CountTotal(d) ==
    /\ drv[d].pc = "countTotal"
    /\ drv' = [drv EXCEPT ![d].total = Cardinality(ItemRows), ![d].pc = "sync"]
    /\ UNCHANGED <<batch, items, events, progressWrites, cancelReq, retryReq, hist, units>>

\* the end-of-chunk write of processedCount and progress, then the step's
\* result { hasMore: items.length === BATCH_SIZE } and the loop bookkeeping
SyncProgress(d) ==
    /\ drv[d].pc = "sync"
    /\ batch' = [batch EXCEPT
                    !.processedCount = drv[d].totalFinished,
                    !.progress = IF drv[d].total > 0
                                 THEN RoundPercent(drv[d].totalFinished, drv[d].total)
                                 ELSE 0]
    /\ drv' = [drv EXCEPT ![d] = AfterChunk(drv[d], Len(drv[d].items) = BATCH_SIZE)]
    /\ UNCHANGED <<items, events, progressWrites, cancelReq, retryReq, hist, units>>

\* step "mark-completed": the read of the status
MarkRead(d) ==
    /\ drv[d].pc = "mark"
    /\ drv' = [drv EXCEPT ![d] = [IdleRun EXCEPT !.pc = IF batch.status # "STOPPED"
                                                        THEN "markWrite" ELSE "done"]]
    /\ UNCHANGED <<batch, items, events, progressWrites, cancelReq, retryReq, hist, units>>

\* a final write that reports the failed items on the Batch
MarkUpdateReportsFailures(b, its) ==
    IF \E r \in Rows : its[r].exists /\ its[r].status = "FAILED"
    THEN [b EXCEPT !.status = "FAILED", !.error = "Some items failed", !.progress = 100]
    ELSE [b EXCEPT !.status = "COMPLETED", !.progress = 100]

\* { status: "COMPLETED", progress: 100 }, whatever the items' statuses
MarkUpdate(b, its) == [b EXCEPT !.status = "COMPLETED", !.progress = 100]

\* step "mark-completed": findByIdAndUpdate({ status: "COMPLETED", progress: 100 })
MarkWrite(d) ==
    /\ drv[d].pc = "markWrite"
    /\ batch' = MarkUpdate(batch, items)
    /\ drv' = [drv EXCEPT ![d] = [IdleRun EXCEPT !.pc = "done"]]
    /\ UNCHANGED <<items, events, progressWrites, cancelReq, retryReq, hist, units>>

\* ---------------------------------------------------------- specifications
RunStep(d) ==
    \/ CheckStatus(d)
    \/ FetchChunk(d)
    \/ ReadBatchDoc(d)
    \/ \E idx \in 1..BATCH_SIZE, script \in Scripts : TaskSettle(d, idx, script)
    \/ CountFinished(d)
    \/ CountTotal(d)
    \/ SyncProgress(d)
    \/ MarkRead(d)
    \/ MarkWrite(d)

Driver(d) == InitProcessing(d) \/ RunStep(d)

\* Any client, any order of requests, any number of trigger events up to MaxRuns.
Next ==
    \/ \E n \in 1..MaxItems, k \in 0..MaxKeys : UploadInit(n, k)
    \/ \E rows \in SUBSET Rows, prefilled \in SUBSET Rows : UploadChunk(rows, prefilled)
    \/ UploadComplete
    \/ CancelRead
    \/ CancelSave
    \/ RetryRefuse
    \/ RetryRead
    \/ RetrySave
    \/ \E d \in Runs : Driver(d)
    \/ \E w \in progressWrites : ApplyProgressWrite(w)

Spec == Init /\ [][Next]_vars

\* no run of the batch is between its first and its last step
NoRunActive == \A d \in Runs : drv[d].pc \in {"idle", "done"}

\* The client is the v2 page: it uploads every row, then calls upload/complete
\* once; the batch page offers Stop while PROCESSING and Retry while PENDING,
\* FAILED or STOPPED.  Runs follow one another: an event is delivered when
\* the run before it has ended, which is the stop-then-resume use of the page.
NextResume ==
    \/ \E n \in 1..UIItems, k \in 1..UIKeys : UploadInit(n, k)
    \/ /\ batch.exists /\ batch.status = "UPLOADING"
       /\ \E rows \in SUBSET Rows, prefilled \in SUBSET Rows : UploadChunk(rows, prefilled)
    \/ /\ batch.exists /\ batch.status = "UPLOADING"
       /\ ItemRows = 1..batch.totalItems
       /\ UploadComplete
    \/ /\ batch.exists /\ batch.status = "PROCESSING"
       /\ CancelRead
    \/ CancelSave
    \/ /\ batch.exists /\ batch.status \in {"PENDING", "FAILED", "STOPPED"}
       /\ RetryRead
    \/ RetrySave
    \/ \E d \in Runs : NoRunActive /\ InitProcessing(d)
    \/ \E d \in Runs : RunStep(d)
    \/ \E w \in progressWrites : ApplyProgressWrite(w)

SpecResume == Init /\ [][NextResume]_vars

\* The client calls the upload routes itself: upload/complete takes any
\* batchId and checks neither the status nor the number of items stored, so
\* it may be called when only part of the declared rows is uploaded.  One
\* run follows; nobody stops or retries.
NextDirect ==
    \/ \E n \in 1..UIItems, k \in 1..UIKeys : UploadInit(n, k)
    \/ /\ batch.exists /\ batch.status = "UPLOADING"
       /\ \E rows \in SUBSET Rows, prefilled \in SUBSET Rows : UploadChunk(rows, prefilled)
    \/ /\ batch.exists /\ batch.status = "UPLOADING"
       /\ Sent = 0
       /\ UploadComplete
    \/ \E d \in Runs : Driver(d)
    \/ \E w \in progressWrites : ApplyProgressWrite(w)

SpecDirect == Init /\ [][NextDirect]_vars

\* a BatchItem as upload/chunk inserts it, without a kgId in its payload
PendingItem ==
    [exists |-> TRUE, status |-> "PENDING", result |-> "unset", error |-> "", kgId |-> FALSE]

\* a BatchItem whose uploaded payload holds a kgId
PreFilledItem == [PendingItem EXCEPT !.kgId = TRUE]

\* ------------------------------------------------ one run on its own
\* A job ingested in full, of n items of which some may be pre-filled, with
\* k keys, after upload/complete: status PENDING and the event sent.
InitRun ==
    /\ \E n \in 1..UIItems, k \in 1..RunKeys :
          batch = [exists |-> TRUE, status |-> "PENDING", totalItems |-> n,
                   processedCount |-> 0, progress |-> 0, nKeys |-> k, error |-> ""]
    /\ \E prefilled \in SUBSET (1..batch.totalItems) :
          items = [r \in Rows |-> IF r > batch.totalItems THEN NoItem
                                  ELSE IF r \in prefilled THEN PreFilledItem
                                  ELSE PendingItem]
    /\ events = 1
    /\ drv = [d \in Runs |-> IdleRun]
    /\ progressWrites = {}
    /\ cancelReq = NoReq
    /\ retryReq = NoReq
    /\ hist = NoHist
    /\ lookup = NoLookup
    /\ pool = NoPool
    /\ coll = NoColl
    /\ ids = NoIds
    /\ db = NoDb

\* the run that the event starts, and its progress writes; no other request
NextRunOnly ==
    \/ \E d \in Runs : Driver(d)
    \/ \E w \in progressWrites : ApplyProgressWrite(w)

SpecRun == InitRun /\ [][NextRunOnly]_vars

TypeOK ==
    /\ batch.exists => batch.status \in BATCH_STATUSES
    /\ \A r \in ItemRows : items[r].status \in BATCH_ITEM_STATUSES

\* ------------------------------------------- one task against a stub
\* the main state stays as constructed while a unit is exercised
MainIdle ==
    /\ batch = NoBatch
    /\ items = [r \in Rows |-> NoItem]
    /\ events = 0
    /\ drv = [d \in Runs |-> IdleRun]
    /\ progressWrites = {}
    /\ cancelReq = NoReq
    /\ retryReq = NoReq
    /\ hist = NoHist

InitRetry ==
    /\ MainIdle
    /\ lookup \in {[pc |-> "ready", script |-> s, item |-> i] :
                      s \in StubScripts, i \in {PendingItem, PreFilledItem}}
    /\ pool = NoPool
    /\ coll = NoColl
    /\ ids = NoIds
    /\ db = NoDb

\* The function given to limit() for one item: the pre-filled short cut, or
\* the retry loop around the lookup, then the COMPLETED write or, from the
\* outer catch, the FAILED write.
LookupTask ==
    /\ lookup.pc = "ready"
    /\ LET out == TaskBody(lookup.item.kgId, lookup.script) IN
       lookup' = [pc |-> "done", script |-> lookup.script, out |-> out,
                  item |-> ItemUpdate(lookup.item, out)]
    /\ UNCHANGED <<batch, items, events, drv, progressWrites, cancelReq, retryReq, hist,
                   pool, coll, ids, db>>

NextRetry == LookupTask

SpecRetry == InitRetry /\ [][NextRetry]_vars

\* ------------------------------- one task against a store that may fail
\* the message of the error a rejected findByIdAndUpdate throws
StoreErrorMsg == "Write Error"

\* The task function with item writes that may throw.  writes.completed and
\* writes.failed tell whether the write of the try block and the write of
\* the outer catch go through.  A throw of the first is caught by the outer
\* catch like any other error of the try block; a throw of the second leaves
\* the function, so the task's promise rejects.  storeErrors counts the
\* writes that threw.
TaskWithStore(item, out, writes) ==
    LET viaTry == item.kgId \/ out.ok
        thrown == IF viaTry THEN StoreErrorMsg ELSE out.error
    IN  IF viaTry /\ writes.completed
        THEN [item |-> ItemUpdate(item, out), returned |-> "true", storeErrors |-> 0]
        ELSE IF writes.failed
             THEN [item |-> [item EXCEPT !.status = "FAILED", !.error = thrown],
                   returned |-> "false",
                   storeErrors |-> IF viaTry THEN 1 ELSE 0]
             ELSE [item |-> item, returned |-> "rejected",
                   storeErrors |-> IF viaTry THEN 2 ELSE 1]

InitStore ==
    /\ MainIdle
    /\ lookup \in {[pc |-> "ready", script |-> s, item |-> i, writes |-> w] :
                      s \in StubScripts, i \in {PendingItem, PreFilledItem},
                      w \in [completed : BOOLEAN, failed : BOOLEAN]}
    /\ pool = NoPool
    /\ coll = NoColl
    /\ ids = NoIds
    /\ db = NoDb

\* one task from its start to the settling of its promise
StoreTask ==
    /\ lookup.pc = "ready"
    /\ LET out == TaskBody(lookup.item.kgId, lookup.script)
           end == TaskWithStore(lookup.item, out, lookup.writes)
       IN  lookup' = [pc |-> "done", script |-> lookup.script, writes |-> lookup.writes,
                      out |-> out, item |-> end.item, returned |-> end.returned,
                      storeErrors |-> end.storeErrors]
    /\ UNCHANGED <<batch, items, events, drv, progressWrites, cancelReq, retryReq, hist,
                   pool, coll, ids, db>>

NextStore == StoreTask

SpecStore == InitStore /\ [][NextStore]_vars

\* ------------------------------------------------ one executor pass
\* limit = pLimit(concurrency), before items.map submits the n tasks
InitPool ==
    /\ MainIdle
    /\ lookup = NoLookup
    /\ coll = NoColl
    /\ ids = NoIds
    /\ db = NoDb
    /\ pool \in {[pc |-> "new", limit |-> l, activeCount |-> 0, queue |-> <<>>,
                  task |-> [idx \in 1..n |-> "queued"], all |-> "pending"] :
                    n \in 1..PoolTasks, l \in 1..PoolLimit}

\* the task's promise has settled
Settled(t) == t \in {"resolved", "rejected"}

\* items.map(... limit(fn) ...) and Promise.all(promises): every task is
\* submitted in input order before any of them can settle
PoolSubmit ==
    /\ pool.pc = "new"
    /\ pool' = [SubmitAll(pool, 1, Len(pool.task), pool.limit) EXCEPT !.pc = "open"]
    /\ UNCHANGED <<batch, items, events, drv, progressWrites, cancelReq, retryReq, hist,
                   lookup, coll, ids, db>>

\* run() after the await without the next() that follows a rejection
releaseUnlessRejected(ex, outcome) == IF outcome = "rejected" THEN ex ELSE next(ex)

\* run() after the await: resolve(value) or reject(err), then next()
release(ex, outcome) == next(ex)

\* Promise.all: rejected with the first rejection, fulfilled once every
\* promise is fulfilled
PromiseAll(all, task, outcome) ==
    IF all # "pending" THEN all
    ELSE IF outcome = "rejected" THEN "rejected"
    ELSE IF \A idx \in 1..Len(task) : task[idx] = "resolved" THEN "fulfilled"
    ELSE "pending"

\* The function of task idx returns (it resolves) or throws, as it does when
\* the FAILED write of its catch block fails (it rejects); run() settles the
\* promise and calls next(); the reaction of Promise.all runs before any
\* other task settles.
PoolSettle(idx, outcome) ==
    /\ pool.pc = "open"
    /\ idx \in 1..Len(pool.task)
    /\ pool.task[idx] = "running"
    /\ LET settled == [pool EXCEPT !.task[idx] = outcome]
           after == release(settled, outcome)
       IN  pool' = [after EXCEPT !.all = PromiseAll(pool.all, settled.task, outcome)]
    /\ UNCHANGED <<batch, items, events, drv, progressWrites, cancelReq, retryReq, hist,
                   lookup, coll, ids, db>>

NextPool ==
    \/ PoolSubmit
    \/ \E idx \in 1..PoolTasks, outcome \in {"resolved", "rejected"} : PoolSettle(idx, outcome)

SpecPool == InitPool /\ [][NextPool]_vars

\* --------------------------------------- upload/chunk on the collection
\* the item arrays of upload/chunk requests: row ids, in request order
ChunkBodies == UNION {[1..n -> 1..IngestRows] : n \in 1..IngestOps}

\* Requests c with their bodies; an item's payload is told apart by the
\* request and the position that carried it.
InitIngest ==
    /\ MainIdle
    /\ lookup = NoLookup
    /\ pool = NoPool
    /\ coll \in {[pc |-> "on", docs |-> <<>>,
                  calls |-> [c \in 1..IngestCalls |->
                                [ops |-> bodies[c], at |-> 1, phase |-> "find"]]] :
                    bodies \in [1..IngestCalls -> ChunkBodies]}
    /\ ids = NoIds
    /\ db = NoDb

\* the documents that match { batchId, "data._rowId": row }
Matching(docs, row) == {i \in 1..Len(docs) : docs[i].row = row}

\* the collection without its unique index
NoUniqueIndex(docs, row) == FALSE

\* the unique index { batchId: 1, "data._rowId": 1 } refuses the insert
DuplicateKey(docs, row) == Matching(docs, row) # {}

\* bulkWrite is ordered: the next operation, or the end of the request
Advance(call) ==
    IF call.at = Len(call.ops)
    THEN [call EXCEPT !.phase = "done"]
    ELSE [call EXCEPT !.at = call.at + 1, !.phase = "find"]

\* updateOne with upsert, its query: a match makes $setOnInsert a no-op
UpsertFind(c) ==
    /\ coll.pc = "on"
    /\ coll.calls[c].phase = "find"
    /\ LET call == coll.calls[c]
           row == call.ops[call.at]
       IN  coll' = [coll EXCEPT !.calls[c] =
                        IF Matching(coll.docs, row) # {}
                        THEN Advance(call)
                        ELSE [call EXCEPT !.phase = "insert"]]
    /\ UNCHANGED <<batch, items, events, drv, progressWrites, cancelReq, retryReq, hist,
                   lookup, pool, ids, db>>

\* updateOne with upsert, its insert of { batchId, data, status: "PENDING" };
\* on a duplicate key the server runs the upsert again or the bulkWrite
\* fails and the route answers 500
UpsertInsert(c, retried) ==
    /\ coll.pc = "on"
    /\ coll.calls[c].phase = "insert"
    /\ LET call == coll.calls[c]
           row == call.ops[call.at]
       IN  IF DuplicateKey(coll.docs, row)
           THEN coll' = [coll EXCEPT !.calls[c].phase = IF retried THEN "find" ELSE "error"]
           ELSE coll' = [coll EXCEPT
                            !.docs = Append(coll.docs,
                                            [row |-> row, data |-> <<c, call.at>>,
                                             status |-> "PENDING", result |-> "unset"]),
                            !.calls[c] = Advance(call)]
    /\ UNCHANGED <<batch, items, events, drv, progressWrites, cancelReq, retryReq, hist,
                   lookup, pool, ids, db>>

\* a task of the driver writes a PENDING item: findByIdAndUpdate by _id
ProcessDoc(i) ==
    /\ coll.pc = "on"
    /\ i \in 1..Len(coll.docs)
    /\ coll.docs[i].status = "PENDING"
    /\ coll' = [coll EXCEPT !.docs[i].status = "COMPLETED", !.docs[i].result = "match"]
    /\ UNCHANGED <<batch, items, events, drv, progressWrites, cancelReq, retryReq, hist,
                   lookup, pool, ids, db>>

NextIngest ==
    \/ \E c \in 1..IngestCalls : UpsertFind(c)
    \/ \E c \in 1..IngestCalls, retried \in BOOLEAN : UpsertInsert(c, retried)
    \/ \E i \in 1..(IngestCalls * IngestOps) : ProcessDoc(i)

SpecIngest == InitIngest /\ [][NextIngest]_vars

\* ------------------------------------------------ the loop on its own
\* processWikidata after init-processing: hasMore = true, chunkIndex = 0
InitLoop ==
    /\ batch = NoBatch
    /\ items = [r \in Rows |-> NoItem]
    /\ events = 0
    /\ drv = [d \in Runs |-> IF d = 1 THEN [IdleRun EXCEPT !.pc = "check"] ELSE IdleRun]
    /\ progressWrites = {}
    /\ cancelReq = NoReq
    /\ retryReq = NoReq
    /\ hist = NoHist
    /\ lookup = NoLookup
    /\ pool = NoPool
    /\ coll = NoColl
    /\ ids = NoIds
    /\ db = NoDb

\* One pass through the body of while (hasMore), for any status that
\* check-status may return and any result of process-chunk: the break, or
\* the bookkeeping on result.hasMore, chunkIndex++ and the ceiling.
LoopIteration(status, resultHasMore) ==
    /\ drv[1].pc = "check"
    /\ drv' = [drv EXCEPT ![1] = IF ObservesStop(status)
                                 THEN [drv[1] EXCEPT !.pc = "mark"]
                                 ELSE AfterChunk(drv[1], resultHasMore)]
    /\ UNCHANGED <<batch, items, events, progressWrites, cancelReq, retryReq, hist, units>>

\* the loop is left; mark-completed follows
LoopExit ==
    /\ drv[1].pc = "mark"
    /\ drv' = [drv EXCEPT ![1].pc = "done"]
    /\ UNCHANGED <<batch, items, events, progressWrites, cancelReq, retryReq, hist, units>>

NextLoop ==
    \/ \E status \in {"PROCESSING", "STOPPED"}, resultHasMore \in BOOLEAN :
          LoopIteration(status, resultHasMore)
    \/ LoopExit

SpecLoop == InitLoop /\ [][NextLoop]_vars

\* ------------------------------------------------- the backoff waits
\* 2^n
RECURSIVE Pow2(_)
Pow2(n) == IF n = 0 THEN 1 ELSE 2 * Pow2(n - 1)

\* values of Math.random(), as numerators over RandomDenom: 0 <= n / RandomDenom < 1
RandomSamples == {0, 1, RandomDenom \div 2, RandomDenom - 1}

\* Math.floor(Math.random() * 1000)
RetryJitter(n) == (n * JITTER_RANGE) \div RandomDenom

\* a delay that grows by BASE_DELAY with every attempt
BackoffDelayLinear(attempt, n) == BASE_DELAY * attempt + RetryJitter(n)

\* delay + retryJitter, with delay = 1000 * Math.pow(2, attempt - 1), for the
\* value of attempt after attempt++ and the random draw n
BackoffDelay(attempt, n) == BASE_DELAY * Pow2(attempt - 1) + RetryJitter(n)

\* stubs for the waits: j rate-limit errors of one marker, then an answer or
\* an error without marker
BackoffScripts ==
    { [k \in 1..(j + 1) |-> IF k <= j THEN limited ELSE last] :
        j \in 0..(MAX_RETRIES + 1), limited \in {RateLimitMsg, QuotaMsg},
        last \in {"match", "none", OtherMsg} }

InitBackoff ==
    /\ MainIdle
    /\ lookup \in {[pc |-> "ready", script |-> s, item |-> PendingItem, random |-> n] :
                      s \in BackoffScripts, n \in [1..MAX_RETRIES -> RandomSamples]}
    /\ pool = NoPool
    /\ coll = NoColl
    /\ ids = NoIds
    /\ db = NoDb

\* One task with the waits of its retry loop: the loop waits once each time
\* it goes round, with attempt = 1, 2, ... and a fresh random draw.
BackoffTask ==
    /\ lookup.pc = "ready"
    /\ LET out == TaskBody(lookup.item.kgId, lookup.script) IN
       lookup' = [pc |-> "done", script |-> lookup.script, random |-> lookup.random,
                  out |-> out, item |-> ItemUpdate(lookup.item, out),
                  waits |-> [k \in 1..out.delays |-> BackoffDelay(k, lookup.random[k])]]
    /\ UNCHANGED <<batch, items, events, drv, progressWrites, cancelReq, retryReq, hist,
                   pool, coll, ids, db>>

NextBackoff == BackoffTask

SpecBackoff == InitBackoff /\ [][NextBackoff]_vars

\* ------------------------------------------- upload/init and the counter
\* InitRequests requests to POST /api/v2/upload/init, none served yet; the
\* Counter document "batchId" does not exist, which reads as seq 0
InitIds ==
    /\ MainIdle
    /\ lookup = NoLookup
    /\ pool = NoPool
    /\ coll = NoColl
    /\ ids = [pc |-> "on", seq |-> 0, created |-> <<>>,
              req |-> [q \in 1..InitRequests |-> [pc |-> "start", readableId |-> 0]]]
    /\ db = NoDb

\* Counter.findByIdAndUpdate({ _id: "batchId" }, { $inc: { seq: 1 } },
\* { new: true, upsert: true }): one atomic step of the store that returns
\* the incremented document
NextSequence(q) ==
    /\ ids.pc = "on"
    /\ ids.req[q].pc = "start"
    /\ ids' = [ids EXCEPT !.seq = ids.seq + 1,
                          !.req[q] = [pc |-> "counted", readableId |-> ids.seq + 1]]
    /\ UNCHANGED <<batch, items, events, drv, progressWrites, cancelReq, retryReq, hist,
                   lookup, pool, coll, db>>

\* Batch.create({ ..., readableId }): the job exists from here on; created
\* lists the numbers of the jobs in the order of their creation
CreateBatch(q) ==
    /\ ids.pc = "on"
    /\ ids.req[q].pc = "counted"
    /\ ids' = [ids EXCEPT !.created = Append(ids.created, ids.req[q].readableId),
                          !.req[q].pc = "created"]
    /\ UNCHANGED <<batch, items, events, drv, progressWrites, cancelReq, retryReq, hist,
                   lookup, pool, coll, db>>

\* Batch.create throws (fileName and totalItems are required): the catch
\* answers 500 and the number taken is not used
CreateRejected(q) ==
    /\ ids.pc = "on"
    /\ ids.req[q].pc = "counted"
    /\ ids' = [ids EXCEPT !.req[q].pc = "failed"]
    /\ UNCHANGED <<batch, items, events, drv, progressWrites, cancelReq, retryReq, hist,
                   lookup, pool, coll, db>>

NextIds ==
    \E q \in 1..InitRequests :
        \/ NextSequence(q)
        \/ CreateBatch(q)
        \/ CreateRejected(q)

SpecIds == InitIds /\ [][NextIds]_vars

\* ------------------------------------------------------------ dbConnect
\* cached = { conn: null, promise: null } and DbCalls calls not made yet.
\* An attempt is one mongoose.connect(); conn and promise hold the number of
\* an attempt, 0 for null.  waiters are the calls suspended at the await in
\* the order of their await; micro is the microtask queue of their
\* resumptions once the promise they await has settled.
InitDb ==
    /\ MainIdle
    /\ lookup = NoLookup
    /\ pool = NoPool
    /\ coll = NoColl
    /\ ids = NoIds
    /\ db = [pc |-> "on", conn |-> 0, promise |-> 0, attempts |-> <<>>,
             waiters |-> <<>>, micro |-> <<>>,
             call |-> [c \in 1..DbCalls |-> [pc |-> "idle", on |-> 0, got |-> 0]]]

\* dbConnect() up to its await: the cached connection is returned at once;
\* else the call starts an attempt unless one is cached, and awaits the
\* cached promise.  A call is made from a task of its own, so none starts
\* while resumptions are queued.
DbCall(c) ==
    /\ db.pc = "on"
    /\ db.call[c].pc = "idle"
    /\ db.micro = <<>>
    /\ IF db.conn # 0
       THEN db' = [db EXCEPT !.call[c] = [pc |-> "returned", on |-> 0, got |-> db.conn]]
       ELSE LET fresh == db.promise = 0
                attempts == IF fresh THEN Append(db.attempts, "pending") ELSE db.attempts
                promise == IF fresh THEN Len(attempts) ELSE db.promise
                suspended == [db EXCEPT !.attempts = attempts,
                                        !.promise = promise,
                                        !.call[c] = [pc |-> "awaiting", on |-> promise,
                                                     got |-> 0]]
            IN  db' = IF attempts[promise] = "pending"
                      THEN [suspended EXCEPT !.waiters = Append(db.waiters, c)]
                      ELSE [suspended EXCEPT !.micro = Append(db.micro, c)]
    /\ UNCHANGED <<batch, items, events, drv, progressWrites, cancelReq, retryReq, hist,
                   lookup, pool, coll, ids>>

\* mongoose.connect() of attempt a resolves or rejects: the resumptions of the
\* calls that await it are queued in the order of their await
DbSettle(a, outcome) ==
    /\ db.pc = "on"
    /\ a \in 1..Len(db.attempts)
    /\ db.attempts[a] = "pending"
    /\ db.micro = <<>>
    /\ LET awaits(c) == db.call[c].on = a
           others(c) == db.call[c].on # a
       IN  db' = [db EXCEPT !.attempts[a] = outcome,
                            !.micro = SelectSeq(db.waiters, awaits),
                            !.waiters = SelectSeq(db.waiters, others)]
    /\ UNCHANGED <<batch, items, events, drv, progressWrites, cancelReq, retryReq, hist,
                   lookup, pool, coll, ids>>

\* a catch block that leaves the rejected promise cached
KeepPromise(promise) == promise

\* catch (e) { cached.promise = null; throw e }
ClearPromise(promise) == 0

\* the first queued call resumes after its await: cached.conn = the value
\* and return, or the catch block
DbResume ==
    /\ db.pc = "on"
    /\ db.micro # <<>>
    /\ LET c == Head(db.micro)
           a == db.call[c].on
       IN  db' = IF db.attempts[a] = "resolved"
                 THEN [db EXCEPT !.conn = a,
                                 !.call[c] = [pc |-> "returned", on |-> a, got |-> a],
                                 !.micro = Tail(db.micro)]
                 ELSE [db EXCEPT !.promise = ClearPromise(db.promise),
                                 !.call[c] = [pc |-> "threw", on |-> a, got |-> 0],
                                 !.micro = Tail(db.micro)]
    /\ UNCHANGED <<batch, items, events, drv, progressWrites, cancelReq, retryReq, hist,
                   lookup, pool, coll, ids>>

NextDb ==
    \/ \E c \in 1..DbCalls : DbCall(c)
    \/ \E a \in 1..DbCalls, outcome \in {"resolved", "rejected"} : DbSettle(a, outcome)
    \/ DbResume

SpecDb == InitDb /\ [][NextDb]_vars

\* ------------------------------------------------------------ properties
\* tasks in flight for row r, over all runs
TasksOn(r) ==
    {t \in Runs \X (1..BATCH_SIZE) :
        t[2] \in InFlight(t[1]) /\ drv[t[1]].items[t[2]] = r}

\* the chunk sizes of one uninterrupted run over n items
ExpectedChunks(n) ==
    [k \in 1..((n + BATCH_SIZE - 1) \div BATCH_SIZE) |->
        IF k * BATCH_SIZE <= n THEN BATCH_SIZE ELSE n - (k - 1) * BATCH_SIZE]

\* C1: a run never has more than max(1, K) tasks started and not settled.
C1_ConcurrencyCeiling ==
    \A d \in Runs :
        drv[d].pc = "exec" => Cardinality(InFlight(d)) <= Concurrency(batch.nKeys)

\* the ceiling binds: a full executor with a task waiting in its queue
C1_Witness ==
    \E d \in Runs :
        /\ drv[d].pc = "exec"
        /\ Cardinality(InFlight(d)) = Concurrency(batch.nKeys)
        /\ Len(drv[d].queue) > 0

\* C2: an item that is COMPLETED or FAILED is never written again.
C2_ItemStatusMonotonic ==
    [][\A r \in Rows :
          (items[r].exists /\ items[r].status \in Terminal) => items'[r] = items[r]]_vars

\* C3: at most one task in flight works on a given item.
C3_OneTaskPerItem == \A r \in Rows : Cardinality(TasksOn(r)) <= 1

C5_ProcessedWithinTotal == batch.exists => batch.processedCount <= batch.totalItems

\* C6: no step of a run changes the status of a STOPPED batch.
C6_DriverKeepsStopped ==
    [][(batch.exists /\ batch.status = "STOPPED" /\ drv' # drv)
          => batch'.status = "STOPPED"]_vars

\* C7: stopped between chunk k's sync and the next status check, a lone run
\* starts no further chunk, processedCount stays at what the sync of chunk k
\* wrote, and the status stays STOPPED.
C7_StopBetweenChunks ==
    (hist.stopMark # <<>> /\ Sent = 1) =>
        /\ Len(hist.chunks[1]) = hist.stopMark[1]
        /\ batch.processedCount = hist.stopMark[2]
        /\ batch.status = "STOPPED"

\* C8: the step that writes COMPLETED leaves no item PENDING.
C8_CompletedMeansNoPending ==
    [][(\E d \in Runs : drv[d].pc = "markWrite" /\ drv'[d].pc = "done")
          => PendingRows' = {}]_vars

\* C9: a lone run without stop request over n items takes the chunks
\* ExpectedChunks(n) and, once its writes are applied, leaves
\* processedCount = n, progress = 100 and status COMPLETED.
C9_EndToEnd ==
    (/\ drv[1].pc = "done"
     /\ Sent = 1
     /\ ~hist.cancelled
     /\ progressWrites = {}) =>
        /\ hist.chunks[1] = ExpectedChunks(batch.totalItems)
        /\ batch.processedCount = batch.totalItems
        /\ batch.progress = 100
        /\ batch.status = "COMPLETED"

\* C10: a COMPLETED or FAILED batch keeps its status.
C10_TerminalJobStatus ==
    [][(batch.exists /\ batch.status \in {"COMPLETED", "FAILED"})
          => batch'.status = batch.status]_vars

\* C11: the status becomes STOPPED only from PROCESSING: no step takes a
\* batch that is UPLOADING, PENDING, COMPLETED or FAILED to STOPPED.
C11_StoppedOnlyFromProcessing ==
    [][(batch.exists /\ batch'.status = "STOPPED" /\ batch.status # "STOPPED")
          => batch.status = "PROCESSING"]_vars

\* an error message that carries a rate-limit marker ("429" or "quota")
SignalsRateLimit(msg) == msg \in {RateLimitMsg, QuotaMsg}

\* the lookup's response is an answer: a match or null
Answers(msg) == msg \in {"match", "none"}

\* the first j calls of the stub signal a rate limit
RateLimitedFor(script, j) == \A k \in 1..j : SignalsRateLimit(script[k])

\* C12: an item's task makes at most MAX_RETRIES retries, so at most
\* MAX_RETRIES + 1 lookup calls, whatever the stub answers; when the call
\* number MAX_RETRIES + 1 is rate-limited too, the item is FAILED with that
\* error's message.
C12_RetriesBounded ==
    (lookup.pc = "done" /\ ~lookup.item.kgId) =>
        /\ lookup.out.calls <= MAX_RETRIES + 1
        /\ lookup.out.delays <= MAX_RETRIES
        /\ RateLimitedFor(lookup.script, MAX_RETRIES + 1) =>
              /\ lookup.out.calls = MAX_RETRIES + 1
              /\ lookup.out.delays = MAX_RETRIES
              /\ lookup.item.status = "FAILED"
              /\ lookup.item.error = lookup.script[MAX_RETRIES + 1]

\* the stub is rate-limited on every call and the task has returned
C12_Witness ==
    /\ lookup.pc = "done"
    /\ RateLimitedFor(lookup.script, StubCalls)
    /\ lookup.item.status = "FAILED"

\* C13: j rate-limit errors (0 <= j <= MAX_RETRIES), then an answer: j
\* retries, each after one backoff delay, and the item is COMPLETED with the
\* result of the call that answered.
C13_BackoffThenSuccess ==
    (lookup.pc = "done" /\ ~lookup.item.kgId) =>
        \A j \in 0..MAX_RETRIES :
            (RateLimitedFor(lookup.script, j) /\ Answers(lookup.script[j + 1])) =>
                /\ lookup.out.calls = j + 1
                /\ lookup.out.delays = j
                /\ lookup.item.status = "COMPLETED"
                /\ lookup.item.result =
                      (IF lookup.script[j + 1] = "match" THEN "match" ELSE "empty")
                /\ lookup.item.error = ""

\* two rate-limit errors, one of each marker, then a match
C13_Witness ==
    /\ lookup.pc = "done"
    /\ lookup.script[1] = RateLimitMsg
    /\ lookup.script[2] = QuotaMsg
    /\ lookup.script[3] = "match"
    /\ lookup.out.delays = 2
    /\ lookup.item.status = "COMPLETED"

\* C14: an error without rate-limit marker is not retried: the call that
\* raised it is the last one, no delay follows it, and the item is FAILED
\* with its message; raised by the first call, the lookup is called once and
\* no delay is taken at all.
C14_OtherErrorNoRetry ==
    (lookup.pc = "done" /\ ~lookup.item.kgId) =>
        \A j \in 0..MAX_RETRIES :
            (RateLimitedFor(lookup.script, j) /\ lookup.script[j + 1] = OtherMsg) =>
                /\ lookup.out.calls = j + 1
                /\ lookup.out.delays = j
                /\ lookup.item.status = "FAILED"
                /\ lookup.item.error = OtherMsg
                /\ lookup.item.result = "unset"

\* the first call raises an error without marker
C14_Witness ==
    /\ lookup.pc = "done"
    /\ lookup.script[1] = OtherMsg
    /\ lookup.out.calls = 1
    /\ lookup.item.status = "FAILED"

\* Promise.all(promises) of run d has resolved and the chunk is not left yet
PassFinished(d) ==
    \/ drv[d].pc \in {"countTotal", "sync"}
    \/ /\ drv[d].pc = "exec"
       /\ \A idx \in 1..Len(drv[d].task) : drv[d].task[idx] = "settled"

\* C15: once a chunk's executor pass has finished, every item fetched for
\* the chunk is COMPLETED or FAILED, and every item whose lookup failed is
\* FAILED with the message of the error that was caught.
C15_PassLeavesNoPending ==
    \A d \in Runs :
        PassFinished(d) =>
            \A idx \in 1..Len(drv[d].items) :
                LET r == drv[d].items[idx] IN
                /\ items[r].exists
                /\ items[r].status \in Terminal
                /\ \A f \in hist.failed :
                      f.row = r => items[r].status = "FAILED" /\ items[r].error = f.error

\* a finished pass over a full chunk with a failed and a completed item
C15_Witness ==
    \E d \in Runs :
        /\ PassFinished(d)
        /\ Len(drv[d].items) = BATCH_SIZE
        /\ \E idx \in 1..BATCH_SIZE : items[drv[d].items[idx]].status = "FAILED"
        /\ \E idx \in 1..BATCH_SIZE : items[drv[d].items[idx]].status = "COMPLETED"
        /\ hist.failed # {}

\* C16: a lone run without stop request in which a lookup failed still
\* fetches every chunk, leaves no item PENDING, ends COMPLETED, and
\* processedCount counts every item, the failed ones included.
C16_FailureContained ==
    (/\ drv[1].pc = "done"
     /\ Sent = 1
     /\ ~hist.cancelled
     /\ progressWrites = {}
     /\ hist.failed # {}) =>
        /\ hist.chunks[1] = ExpectedChunks(batch.totalItems)
        /\ PendingRows = {}
        /\ batch.status = "COMPLETED"
        /\ batch.processedCount = batch.totalItems

\* every task of the executor has settled
AllSettled == \A idx \in 1..Len(pool.task) : Settled(pool.task[idx])

\* the tasks waiting in the executor's queue
Queued == {idx \in 1..Len(pool.task) : pool.task[idx] = "queued"}

\* C17: every submitted task gets started (a task waits only while another
\* one runs, and it waits in the queue), the join over the tasks completes
\* only when all of them have settled, and then the executor has active
\* count 0 and an empty queue.
C17_AllStartedAllAwaited ==
    pool.pc = "open" =>
        /\ Queued = {pool.queue[k] : k \in 1..Len(pool.queue)}
        /\ Queued # {} => \E idx \in 1..Len(pool.task) : pool.task[idx] = "running"
        /\ pool.all # "pending" => AllSettled
        /\ AllSettled => pool.activeCount = 0 /\ pool.queue = <<>>

\* C18: when a running task rejects, its slot goes to the head of the queue,
\* which starts running, or is freed when nothing waits; every other task
\* stays as it was.
C18_RejectionReleasesSlot ==
    [][\A idx \in 1..PoolTasks :
          (/\ pool.pc = "open"
           /\ idx <= Len(pool.task)
           /\ pool.task[idx] = "running"
           /\ pool'.task[idx] = "rejected") =>
              /\ IF pool.queue # <<>>
                 THEN /\ pool'.task[Head(pool.queue)] = "running"
                      /\ pool'.queue = Tail(pool.queue)
                      /\ pool'.activeCount = pool.activeCount
                 ELSE /\ pool'.activeCount = pool.activeCount - 1
                      /\ pool'.queue = <<>>
              /\ \A other \in 1..Len(pool.task) :
                    (other # idx /\ (pool.queue = <<>> \/ other # Head(pool.queue)))
                        => pool'.task[other] = pool.task[other]]_vars

\* a task rejected, and every task that waited behind it has run and settled
C18_Witness ==
    /\ pool.pc = "open"
    /\ Len(pool.task) > pool.limit
    /\ pool.task[1] = "rejected"
    /\ \A idx \in 2..Len(pool.task) : pool.task[idx] = "resolved"
    /\ pool.activeCount = 0

\* C19: tasks are started in submission order: a task is never started
\* while a task submitted before it still waits.
C19_FifoAdmission ==
    pool.pc = "open" =>
        \A i, j \in 1..Len(pool.task) :
            (i < j /\ pool.task[j] # "queued") => pool.task[i] # "queued"

\* the last task still waits while tasks settled out of submission order
C19_Witness ==
    /\ pool.pc = "open"
    /\ Len(pool.task) = PoolTasks
    /\ pool.task[PoolTasks] = "queued"
    /\ pool.task[1] = "running"
    /\ Settled(pool.task[2])
    /\ Len(pool.queue) >= 1

\* the rows whose upsert has returned in request c
Ingested(c) ==
    LET call == coll.calls[c]
        upto == IF call.phase = "done" THEN Len(call.ops) ELSE call.at - 1
    IN  {call.ops[k] : k \in 1..upto}

\* C20: however often and however concurrently a row id is ingested, one
\* item is stored for it, and an upsert that finds the item leaves its
\* status, result and payload as they are.
C20_IdempotentIngestion ==
    [][coll.pc = "on" =>
          /\ \A row \in 1..IngestRows : Cardinality(Matching(coll'.docs, row)) <= 1
          /\ \A c \in 1..IngestCalls : \A row \in Ingested(c)' :
                Cardinality(Matching(coll'.docs, row)) = 1
          /\ coll'.calls # coll.calls =>
                \A i \in 1..Len(coll.docs) : coll'.docs[i] = coll.docs[i]]_vars

\* two requests carried row 1, one of them twice; both have returned, the
\* item was processed in between and keeps the payload that inserted it
C20_Witness ==
    /\ coll.pc = "on"
    /\ coll.calls[1].ops = <<1, 1>> /\ coll.calls[1].phase = "done"
    /\ coll.calls[2].ops = <<1>> /\ coll.calls[2].phase = "done"
    /\ Len(coll.docs) = 1
    /\ coll.docs[1].status = "COMPLETED"
    /\ coll.docs[1].data = <<2, 1>>

\* C21: a retry request for a batch without keys, whatever the status it
\* finds, is refused and leaves the batch, its items and the event queue as
\* they were; no retry of such a batch ever gets as far as its save.
C21_RetryWithoutKeysRefused ==
    [][/\ (batch.exists /\ batch.nKeys = 0) => retryReq' = NoReq
       /\ (hist'.refused /\ ~hist.refused) =>
             /\ batch' = batch
             /\ items' = items
             /\ events' = events
             /\ drv' = drv]_vars

\* a stopped batch without keys, with items left PENDING, was refused
C21_Witness ==
    /\ hist.refused
    /\ batch.exists /\ batch.nKeys = 0
    /\ batch.status = "STOPPED"
    /\ PendingRows # {}
    /\ events = 0

\* C22: a lone run that is stopped finishes the chunk it is in: every item
\* of that chunk ends COMPLETED or FAILED, and no more than BATCH_SIZE items
\* are written after the stop request was saved.
C22_StopAtChunkBoundary ==
    (Sent = 1 /\ hist.cancelled) =>
        /\ Cardinality(hist.afterStop) <= BATCH_SIZE
        /\ drv[1].pc = "done" => \A r \in hist.stopChunk : items[r].status \in Terminal

\* stopped while a full chunk was being fetched or run: the whole chunk
\* was still processed and the loop then halted with items left PENDING
C22_Witness ==
    /\ Sent = 1
    /\ hist.cancelled
    /\ drv[1].pc = "done"
    /\ Cardinality(hist.afterStop) = BATCH_SIZE
    /\ PendingRows # {}
    /\ batch.status = "STOPPED"

\* C23: the stored processedCount never decreases, whichever progress write
\* reaches the store.
C23_ProcessedCountMonotonic ==
    [][(batch.exists /\ batch'.exists)
          => batch'.processedCount >= batch.processedCount]_vars

\* C24: one invocation of the driver loop runs at most CHUNK_CEILING chunk
\* iterations, also when every chunk reports that more items remain.
C24_ChunkCeiling == drv[1].chunkIndex <= CHUNK_CEILING

\* C25: the end-of-chunk sync is written when every task of the chunk has
\* settled; it sets processedCount to the number of items that are COMPLETED
\* or FAILED then, and progress to round(processedCount / totalItems * 100)
\* for the totalItems of the Batch record.
C25_SyncIsExact ==
    [][\A d \in Runs :
          (drv[d].pc = "sync" /\ drv'[d].pc # "sync") =>
              /\ \A idx \in 1..Len(drv[d].task) : drv[d].task[idx] = "settled"
              /\ batch'.processedCount = Cardinality(TerminalRows)
              /\ batch'.progress = RoundPercent(batch'.processedCount, batch.totalItems)]_vars

\* C26: the chunks of a run follow one another: while the run counts and
\* syncs a chunk all its tasks have settled, and when it checks the status
\* or fetches, no task of it exists and every chunk fetched so far has had
\* its sync write.
C26_ChunksSequential ==
    \A d \in Runs :
        /\ drv[d].pc \in {"countTotal", "sync"} =>
              \A idx \in 1..Len(drv[d].task) : drv[d].task[idx] = "settled"
        /\ drv[d].pc \in {"check", "chunk"} =>
              /\ drv[d].task = <<>>
              /\ Len(hist.chunks[d]) = drv[d].chunkIndex
        /\ drv[d].pc \in {"batchDoc", "exec", "countTotal", "sync"} =>
              Len(hist.chunks[d]) = drv[d].chunkIndex + 1

\* the second chunk of a run has a task running and the first chunk is done
C26_Witness ==
    \E d \in Runs :
        /\ drv[d].pc = "exec"
        /\ drv[d].chunkIndex = 1
        /\ InFlight(d) # {}
        /\ Cardinality(TerminalRows) >= BATCH_SIZE
        /\ batch.processedCount = BATCH_SIZE

\* C27: processing of a batch that is UPLOADING is triggered by
\* upload/complete only: no other request sends the processing event for it
\* or takes it out of UPLOADING.
C27_IngestionBeforeProcessing ==
    [][(batch.exists /\ batch.status = "UPLOADING") =>
          /\ events' > events => (retryReq' = retryReq /\ batch'.status = "PENDING")
          /\ batch'.status \in {"UPLOADING", "PENDING"}]_vars

\* C28: in a job of at most 10000 items, each time the number of items
\* completed in the chunk (succeeded, failed or pre-filled) reaches a
\* multiple of updateInterval, the task issues an incremental progress write
\* of baseProcessedCount plus that number; in a larger job no task issues one.
C28_IncrementalWriteEachInterval ==
    [][\A d \in Runs :
          LET done == drv'[d].itemsCompletedInChunk
              currentTotal == drv[d].baseProcessedCount + done
          IN  /\ ( /\ drv[d].pc = "exec"
                   /\ done = drv[d].itemsCompletedInChunk + 1
                   /\ useGranularUpdates(drv[d].totalItems)
                   /\ done % UpdateInterval(drv[d].totalItems) = 0 )
                 => [by |-> d, chunkIndex |-> drv[d].chunkIndex,
                     processedCount |-> currentTotal,
                     progress |-> RoundPercent(currentTotal, drv[d].totalItems)]
                       \in progressWrites' \ progressWrites
              /\ ( drv[d].pc = "exec" /\ ~useGranularUpdates(drv[d].totalItems) )
                 => progressWrites' \subseteq progressWrites]_vars

\* C29: the task of an item whose payload holds a kgId calls the lookup
\* never, waits neither the jitter nor a backoff delay, and writes status
\* COMPLETED only: payload, result and error stay as they were.
C29_PreFilledShortCircuit ==
    (lookup.pc = "done" /\ lookup.item.kgId) =>
        /\ lookup.out.calls = 0
        /\ lookup.out.delays = 0
        /\ lookup.out.jitter = 0
        /\ lookup.item = [PreFilledItem EXCEPT !.status = "COMPLETED"]

\* a pre-filled item's task has returned where the stub would have failed
\* its first call
C29_Witness ==
    /\ lookup.pc = "done"
    /\ lookup.item.kgId
    /\ lookup.script[1] = OtherMsg
    /\ lookup.item.status = "COMPLETED"

\* the items of the lone run that were given key k
GivenKey(k) == {j \in 1..Len(hist.keys[1]) : hist.keys[1][j].key = k}

\* C30: the task of the item at index idx of chunk chunkIndex gets the key
\* at position (chunkIndex * BATCH_SIZE + idx) mod nKeys, and each lookup
\* call of the task is made with that key; when a run that nothing
\* interrupts has ended, the numbers of items given to any two keys differ
\* by at most 1.
C30_KeyRotation ==
    /\ \A j \in 1..Len(hist.keys[1]) :
          LET e == hist.keys[1][j] IN
          e.key = (e.chunkIndex * BATCH_SIZE + e.idx) % batch.nKeys
    /\ \A u \in hist.used :
          \E j \in 1..Len(hist.keys[u.by]) :
              /\ hist.keys[u.by][j].row = u.row
              /\ hist.keys[u.by][j].key = u.key
    /\ drv[1].pc = "done" =>
          /\ Len(hist.keys[1]) = batch.totalItems
          /\ \A k1, k2 \in 0..(batch.nKeys - 1) :
                Cardinality(GivenKey(k1)) - Cardinality(GivenKey(k2)) <= 1

\* a run over two chunks with more keys than a chunk has items has ended, and
\* the item of its second chunk failed after its rate-limited retries
C30_Witness ==
    /\ drv[1].pc = "done"
    /\ batch.nKeys = RunKeys
    /\ batch.totalItems = UIItems
    /\ Len(hist.chunks[1]) = 2
    /\ \E u \in hist.used :
          /\ u.row = UIItems
          /\ u.key = UIItems - 1
          /\ items[u.row].status = "FAILED"
          /\ SignalsRateLimit(items[u.row].error)

\* C31: a BatchItem has an error message only while FAILED, and a stored
\* result only while COMPLETED after a lookup that matched.
C31_ErrorAndResultByStatus ==
    \A r \in ItemRows :
        /\ items[r].error # "" => items[r].status = "FAILED"
        /\ items[r].result # "unset" =>
              (items[r].status = "COMPLETED" /\ items[r].result = "match")

\* C32: when an item write of a task throws, no status is committed for the
\* item: it stays PENDING and the task's promise rejects, which fails the
\* chunk step.
C32_FailedWriteLeavesPending ==
    (lookup.pc = "done" /\ lookup.storeErrors > 0) =>
        /\ lookup.item.status = "PENDING"
        /\ lookup.returned = "rejected"

\* C33: the readableId of a job is greater than the readableId of every job
\* created before it, so the numbers are unique as well.
C33_ReadableIdIncreasing ==
    ids.pc = "on" =>
        \A i, j \in 1..Len(ids.created) : i < j => ids.created[i] < ids.created[j]

\* C34: the wait before retry k is 1000 * 2^(k-1) ms plus a jitter of 0 to
\* 999 ms, so it lies in [1000, 2000), [2000, 3000), [4000, 5000) for
\* k = 1, 2, 3; a wait is taken only before a further call, never after the
\* last one.
C34_BackoffDelays ==
    lookup.pc = "done" =>
        /\ Len(lookup.waits) = lookup.out.calls - 1
        /\ Len(lookup.waits) <= 3
        /\ \A k \in 1..Len(lookup.waits) :
              LET lo == <<1000, 2000, 4000>>[k] IN
              /\ lo <= lookup.waits[k]
              /\ lookup.waits[k] < lo + 1000

\* every call was rate-limited: three waits, the first with the smallest
\* jitter and the last with the largest, and the item FAILED after call 4
C34_Witness ==
    /\ lookup.pc = "done"
    /\ lookup.out.calls = 4
    /\ lookup.waits[1] = 1000
    /\ lookup.waits[3] = 4999
    /\ lookup.item.status = "FAILED"

\* the attempts that have not failed
LiveAttempts == {a \in 1..Len(db.attempts) : db.attempts[a] # "rejected"}

\* C35: at most one connection attempt is pending or successful at any time,
\* so calls made while it is pending share it and no attempt follows a
\* success; every call that returns gets the one connection; and once the
\* calls that awaited a failed attempt have resumed, no promise is cached,
\* so the next call starts a new attempt.
C35_ConnectOnce ==
    db.pc = "on" =>
        /\ Cardinality(LiveAttempts) <= 1
        /\ \A c \in 1..DbCalls :
              db.call[c].pc = "returned" =>
                  /\ db.call[c].got = db.conn
                  /\ db.attempts[db.conn] = "resolved"
        /\ (db.micro = <<>> /\ db.conn = 0 /\ db.promise # 0) =>
              db.attempts[db.promise] = "pending"
        /\ db.attempts = <<>> => \A c \in 1..DbCalls : db.call[c].pc = "idle"

\* the first attempt failed under two calls, the second succeeded under a
\* third, and a fourth call got the cached connection without waiting
C35_Witness ==
    /\ db.pc = "on"
    /\ db.attempts = <<"rejected", "resolved">>
    /\ Cardinality({c \in 1..DbCalls : db.call[c].pc = "threw"}) = 2
    /\ \E c \in 1..DbCalls : db.call[c].pc = "returned" /\ db.call[c].on = 2
    /\ \E c \in 1..DbCalls : db.call[c].pc = "returned" /\ db.call[c].on = 0
                                /\ db.call[c].got = 2

\* C36: the Batch is never FAILED and never has an error: its status is one
\* of UPLOADING, PENDING, PROCESSING, COMPLETED, STOPPED and its error unset.
C36_BatchNeverFailed ==
    batch.exists =>
        /\ batch.status \in {"UPLOADING", "PENDING", "PROCESSING", "COMPLETED", "STOPPED"}
        /\ batch.error = ""

\* a run has ended and marked the Batch after its only item failed
C36_Witness ==
    /\ batch.exists
    /\ batch.status = "COMPLETED"
    /\ batch.error = ""
    /\ PendingRows = {}
    /\ \E r \in ItemRows : items[r].status = "FAILED"
    /\ \E d \in Runs : drv[d].pc = "done"

\* the tasks of the executor that have started and not settled
PoolRunning == {idx \in 1..Len(pool.task) : pool.task[idx] = "running"}

\* C37: activeCount is the number of tasks started and not settled, never
\* negative, and a task waits in the queue only while activeCount is at the
\* limit.
C37_WorkConserving ==
    pool.pc = "open" =>
        /\ pool.activeCount = Cardinality(PoolRunning)
        /\ pool.activeCount >= 0
        /\ pool.queue # <<>> => pool.activeCount = pool.limit

\* a slot was released and taken by the head of the queue while another
\* task still waits
C37_Witness ==
    /\ pool.pc = "open"
    /\ pool.limit > 1
    /\ \E idx \in 1..Len(pool.task) : Settled(pool.task[idx])
    /\ pool.queue # <<>>
    /\ pool.activeCount = pool.limit
    /\ pool.task[pool.limit + 1] = "running"

====
